---- MODULE Spec2Model ----
(***************************************************************************)
(* Model of the Anthropic -> OpenAI gateway's completion orchestrator      *)
(* (src/routes/messages/handler.ts), its tracer (src/lib/trace.ts) and its *)
(* model mapping (src/lib/model-mapping.ts).                               *)
(*                                                                         *)
(* The stream translator, the request translator and the non-stream        *)
(* translator are imported by the handler but their files are not part of  *)
(* the sources at hand; they are modelled from sections 4.1-4.3 of the     *)
(* design.                                                                 *)
(***************************************************************************)
EXTENDS Integers, Sequences, FiniteSets, TLC

VARIABLES
    pc,             \* position of handleCompletion
    error,          \* what made the handler throw ("" while it has not)
    mappings,       \* the Map returned by getModelMappings()
    traceEnabled,   \* state.traceEnabled
    traceFolder,    \* state.traceFolder ("" when unset)
    manualApprove,  \* state.manualApprove
    request,        \* the inbound request body
    anthropicPayload, \* the handler's local after model mapping
    traceTimestamp, \* the handler's local returned by traceRequest
    traceFiles,     \* files written to the trace folder, in order
    traceFailures,  \* number of tracer writes that failed so far
    backendCalls,   \* payloads passed to createChatCompletions, in order
    response,       \* the backend's complete (non-streaming) response
    body,           \* JSON bodies returned to the client, in order
    streamState,    \* AnthropicStreamState of the streaming response
    tracerChunks,   \* StreamTracer.chunks
    pending,        \* events of the current chunk not yet written
    written,        \* SSE frames written to the client, in order
    fed,            \* chunks passed to the translator, in order
    last,           \* <<>> or <<[chunk, before, events]>> of the last translation
    nRaw,           \* raw backend events consumed so far
    rawLimit,       \* most raw events the backend sequence holds
    steps,          \* the calls handleCompletion has made so far, in order
    flushes,        \* Len(written) at each call of StreamTracer.finish
    rawSeen,        \* raw backend events the loop has taken, in order
    clientGone,     \* the client has disconnected from the stream
    cancelMark,     \* <<>> or <<[fed, written]>>: the lengths at the disconnect
    env,            \* process.env.MODEL_MAPPINGS
    cachedMappings, \* module variable of model-mapping.ts: <<>> is null
    cachedEnvValue, \* module variable of model-mapping.ts
    cacheLog,       \* what was done to the mapping cache and environment, in order
    parseInput,     \* the argument of parseModelMappings
    parseResult,    \* <<>> or <<the Map parseModelMappings returned>>
    reqs,           \* the handlers of the requests in flight together
    clock           \* the millisecond the wall clock shows

vars == <<pc, error, mappings, traceEnabled, traceFolder, manualApprove,
          request, anthropicPayload, traceTimestamp, traceFiles,
          traceFailures, backendCalls, response, body, streamState,
          tracerChunks,
          pending, written, fed, last, nRaw, rawLimit, steps, flushes,
          rawSeen, clientGone, cancelMark, env, cachedMappings,
          cachedEnvValue, cacheLog, parseInput, parseResult, reqs, clock>>

\* The state of the one handler of Spec.
handlerVars == <<pc, error, mappings, traceEnabled, traceFolder,
                 manualApprove, request, anthropicPayload, traceTimestamp,
                 traceFiles, traceFailures, backendCalls, response, body,
                 streamState, tracerChunks, pending, written, fed, last,
                 nRaw, rawLimit, steps, flushes, rawSeen>>

\* The state outside the one handler that the handler's steps leave alone.
otherVars == <<clientGone, cancelMark, env, cachedMappings, cachedEnvValue,
               cacheLog, parseInput, parseResult, reqs, clock>>

(***************************************************************************)
(* Bounds.                                                                 *)
(***************************************************************************)
MaxChunks == 3
MaxHandlerChunks == 2

Null == "null"

(***************************************************************************)
(* Backend chunks (OpenAIChunk, choices[0]).  An absent optional string is *)
(* "" (both are falsy to the translator), an absent tool_calls is <<>>.    *)
(***************************************************************************)
Texts == {"Hello"}
Frags == {"{\"city\":", "\"NYC\"}"}
ToolIndexes == {0, 1}
ToolIds == <<"t1", "t2">>
ToolNames == <<"get_weather", "get_time">>
FinishReasons == {"stop", "tool_calls", "length"}

Entry(k, id, name, args) ==
    [index |-> k, id |-> id, name |-> name, arguments |-> args]

OpenEntry(k) == Entry(k, ToolIds[k + 1], ToolNames[k + 1], "")

Chunk(content, toolCalls, finish) ==
    [content |-> content, tool_calls |-> toolCalls, finish_reason |-> finish]

EmptyChunk == Chunk("", <<>>, "")

Chunks ==
    {EmptyChunk}
    \cup {Chunk(t, <<>>, "") : t \in Texts}
    \cup {Chunk("", <<OpenEntry(k)>>, "") : k \in ToolIndexes}
    \cup {Chunk("", <<Entry(k, "", "", f)>>, "") : k \in ToolIndexes, f \in Frags}
    \cup {Chunk("", <<OpenEntry(0), OpenEntry(1)>>, "")}
    \cup {Chunk("", <<Entry(0, "t1", "get_weather", "{\"city\":")>>, "")}
    \cup {Chunk("", <<>>, r) : r \in FinishReasons}

(***************************************************************************)
(* Anthropic events.  One record shape for all six kinds; a field an event *)
(* kind does not have is "" (or -1 for index).                             *)
(***************************************************************************)
Event(type, index, kind, text, id, name, stop) ==
    [type |-> type, index |-> index, kind |-> kind, text |-> text,
     id |-> id, name |-> name, stop_reason |-> stop]

MessageStart == Event("message_start", -1, "", "", "", "", "")
ContentBlockStart(i, kind, id, name) ==
    Event("content_block_start", i, kind, "", id, name, "")
ContentBlockDelta(i, kind, text) ==
    Event("content_block_delta", i, kind, text, "", "", "")
ContentBlockStop(i) == Event("content_block_stop", i, "", "", "", "", "")
MessageDelta(stop) == Event("message_delta", -1, "", "", "", "", stop)
MessageStop == Event("message_stop", -1, "", "", "", "", "")

(***************************************************************************)
(* finish_reason -> stop_reason (design 4.2; unrecognised -> end_turn).    *)
(***************************************************************************)
mapStopReason(r) ==
    CASE r = "stop" -> "end_turn"
      [] r = "length" -> "max_tokens"
      [] r = "tool_calls" -> "tool_use"
      [] r = "content_filter" -> "stop_sequence"
      [] OTHER -> "end_turn"

(***************************************************************************)
(* The stream translator (design 4.3).  Each step takes and returns        *)
(* [st |-> StreamState, ev |-> events emitted so far for this chunk].      *)
(***************************************************************************)
isToolBlockOpen(st) ==
    /\ st.contentBlockOpen
    /\ \E k \in DOMAIN st.toolCalls :
          st.toolCalls[k].content_block_index = st.contentBlockIndex

closeOpenBlock(acc) ==
    IF acc.st.contentBlockOpen
    THEN [st |-> [acc.st EXCEPT !.contentBlockOpen = FALSE],
          ev |-> Append(acc.ev, ContentBlockStop(acc.st.contentBlockIndex))]
    ELSE acc

stepMessageStart(acc) ==
    IF acc.st.messageStartSent
    THEN acc
    ELSE [st |-> [acc.st EXCEPT !.messageStartSent = TRUE],
          ev |-> Append(acc.ev, MessageStart)]

stepText(chunk, acc) ==
    IF chunk.content = ""
    THEN acc
    ELSE LET opened ==
                 IF ~acc.st.contentBlockOpen \/ isToolBlockOpen(acc.st)
                 THEN LET c == closeOpenBlock(acc)
                          i == c.st.contentBlockIndex + 1
                      IN  [st |-> [c.st EXCEPT !.contentBlockIndex = i,
                                               !.contentBlockOpen = TRUE],
                           ev |-> Append(c.ev,
                                         ContentBlockStart(i, "text", "", ""))]
                 ELSE acc
         IN  [st |-> opened.st,
              ev |-> Append(opened.ev,
                            ContentBlockDelta(opened.st.contentBlockIndex,
                                              "text_delta", chunk.content))]

stepToolCall(entry, acc) ==
    LET looked ==
            IF entry.index \in DOMAIN acc.st.toolCalls
            THEN acc
            ELSE LET c == closeOpenBlock(acc)
                     i == c.st.contentBlockIndex + 1
                     info == [content_block_index |-> i, id |-> entry.id,
                              name |-> entry.name, name_sent |-> TRUE]
                     calls == [k \in DOMAIN c.st.toolCalls \cup {entry.index} |->
                                  IF k = entry.index THEN info
                                  ELSE c.st.toolCalls[k]]
                 IN  [st |-> [c.st EXCEPT !.contentBlockIndex = i,
                                          !.contentBlockOpen = TRUE,
                                          !.toolCalls = calls],
                      ev |-> Append(c.ev,
                                    ContentBlockStart(i, "tool_use",
                                                      entry.id, entry.name))]
    IN  IF entry.arguments = ""
        THEN looked
        ELSE [st |-> looked.st,
              ev |-> Append(looked.ev,
                        ContentBlockDelta(
                            looked.st.toolCalls[entry.index].content_block_index,
                            "input_json_delta", entry.arguments))]

RECURSIVE stepToolCalls(_, _)
stepToolCalls(entries, acc) ==
    IF entries = <<>>
    THEN acc
    ELSE stepToolCalls(Tail(entries), stepToolCall(Head(entries), acc))

stepFinish(chunk, acc) ==
    IF chunk.finish_reason = ""
    THEN acc
    ELSE LET c == closeOpenBlock(acc)
         IN  [st |-> c.st,
              ev |-> c.ev \o <<MessageDelta(mapStopReason(chunk.finish_reason)),
                               MessageStop>>]

translateChunkToAnthropicEvents(chunk, st) ==
    stepFinish(chunk,
        stepToolCalls(chunk.tool_calls,
            stepText(chunk,
                stepMessageStart([st |-> st, ev |-> <<>>]))))

(***************************************************************************)
(* handleCompletion, the streaming callback.                               *)
(***************************************************************************)
\* A handler whose block counter starts one lower.
NewStreamStateMinusOne ==
    [messageStartSent |-> FALSE,
     contentBlockIndex |-> -1,
     contentBlockOpen |-> FALSE,
     toolCalls |-> <<>>]

NewStreamState ==
    [messageStartSent |-> FALSE,
     contentBlockIndex |-> 0,
     contentBlockOpen |-> FALSE,
     toolCalls |-> <<>>]

\* What the backend's lazy sequence yields next.
RawOutcomes ==
    {[kind |-> "exhausted"], [kind |-> "throw"], [kind |-> "done"],
     [kind |-> "nodata"], [kind |-> "malformed"]}
    \cup {[kind |-> "chunk", chunk |-> c] : c \in Chunks}

\* A handler that allocates the stream state inside the chunk loop.
translatedFresh(chunk, st) ==
    translateChunkToAnthropicEvents(chunk, NewStreamState)

\* handler.ts line 104: the call on the one state of this response.
translated(chunk, st) == translateChunkToAnthropicEvents(chunk, st)

\* A loop that skips "[DONE]" as it skips an event without data.
afterRawDoneSkipped(kind) ==
    CASE kind = "exhausted" -> "finish"
      [] kind \in {"done", "nodata"} -> "loop"
      [] OTHER -> "failed"

\* handler.ts lines 93-103 for a raw event that is not translated: the loop
\* ends (exhaustion, "[DONE]"), goes on (no data), or throws.
afterRaw(kind) ==
    CASE kind \in {"exhausted", "done"} -> "finish"
      [] kind = "nodata" -> "loop"
      [] OTHER -> "failed"

\* One turn of `for await (const rawEvent of response)` up to the inner loop.
StreamReceive ==
    /\ pc = "loop"
    /\ \E raw \in RawOutcomes :
          /\ raw.kind \in {"exhausted", "throw"} \/ nRaw < rawLimit
          /\ nRaw' = IF raw.kind \in {"exhausted", "throw"} THEN nRaw ELSE nRaw + 1
          /\ rawSeen' = IF raw.kind \in {"exhausted", "throw"}
                        THEN rawSeen ELSE Append(rawSeen, raw)
          /\ IF raw.kind = "chunk"
             THEN LET r == translated(raw.chunk, streamState)
                  IN  /\ streamState' = r.st
                      /\ pending' = r.ev
                      /\ fed' = Append(fed, raw.chunk)
                      /\ last' = <<[chunk |-> raw.chunk, before |-> streamState,
                                    events |-> r.ev]>>
                      /\ pc' = IF r.ev = <<>> THEN "loop" ELSE "write"
                      /\ error' = error
             ELSE /\ UNCHANGED <<streamState, pending, fed, last>>
                  /\ pc' = afterRaw(raw.kind)
                  /\ error' = CASE raw.kind = "throw" -> "backend_stream"
                                [] raw.kind = "malformed" -> "chunk_parse"
                                [] OTHER -> error
    /\ UNCHANGED <<mappings, traceEnabled, traceFolder, manualApprove, request,
                   anthropicPayload, traceTimestamp, traceFiles, traceFailures,
                   backendCalls, response, body, tracerChunks, written,
                   rawLimit>>
    /\ UNCHANGED <<steps, flushes>>
    /\ UNCHANGED otherVars

\* StreamTracer.addChunk
addChunk(chunks, chunk) ==
    IF ~traceEnabled THEN chunks ELSE Append(chunks, chunk)

\* await stream.writeSSE(...): it resolves; once the client is gone the
\* transport either drops the frame and resolves, or rejects.
writeOutcomes == IF clientGone THEN BOOLEAN ELSE {TRUE}

\* A handler that walks the translator's events from the last to the first.
StreamWriteLastFirst ==
    /\ pc = "write"
    /\ pending # <<>>
    /\ tracerChunks' = addChunk(tracerChunks,
                                [openai |-> last[1].chunk,
                                 anthropic |-> pending[Len(pending)]])
    /\ \E resolves \in writeOutcomes :
          IF resolves
          THEN /\ written' = Append(written, pending[Len(pending)])
               /\ pending' = SubSeq(pending, 1, Len(pending) - 1)
               /\ pc' = IF Len(pending) = 1 THEN "loop" ELSE "write"
               /\ error' = error
          ELSE /\ pc' = "failed"
               /\ error' = "write"
               /\ UNCHANGED <<written, pending>>
    /\ UNCHANGED <<mappings, traceEnabled, traceFolder, manualApprove,
                   request, anthropicPayload, traceTimestamp, traceFiles,
                   traceFailures, backendCalls, response, body, streamState,
                   fed, last, nRaw, rawLimit>>
    /\ UNCHANGED <<steps, flushes, rawSeen>>
    /\ UNCHANGED otherVars

\* One turn of `for (const event of events)`.
StreamWrite ==
    /\ pc = "write"
    /\ pending # <<>>
    /\ tracerChunks' = addChunk(tracerChunks,
                                [openai |-> last[1].chunk,
                                 anthropic |-> Head(pending)])
    /\ \E resolves \in writeOutcomes :
          IF resolves
          THEN /\ written' = Append(written, Head(pending))
               /\ pending' = Tail(pending)
               /\ pc' = IF Tail(pending) = <<>> THEN "loop" ELSE "write"
               /\ error' = error
          ELSE /\ pc' = "failed"
               /\ error' = "write"
               /\ UNCHANGED <<written, pending>>
    /\ UNCHANGED <<mappings, traceEnabled, traceFolder, manualApprove,
                   request, anthropicPayload, traceTimestamp, traceFiles,
                   traceFailures, backendCalls, response, body, streamState,
                   fed, last, nRaw, rawLimit>>
    /\ UNCHANGED <<steps, flushes, rawSeen>>
    /\ UNCHANGED otherVars

\* StreamTracer.finish; the write either succeeds or fails and is caught.
StreamTracerFinish ==
    /\ pc = "finish"
    /\ IF ~traceEnabled \/ traceFolder = "" \/ traceTimestamp = Null
       THEN UNCHANGED <<traceFiles, traceFailures>>
       ELSE \E ok \in BOOLEAN :
               IF ok
               THEN /\ traceFiles' =
                          Append(traceFiles,
                                 [name |-> <<traceTimestamp, ".resp">>,
                                  content |-> [streaming |-> TRUE,
                                               chunks |-> tracerChunks]])
                    /\ UNCHANGED traceFailures
               ELSE /\ traceFailures' = traceFailures + 1
                    /\ UNCHANGED traceFiles
    /\ pc' = "done"
    /\ UNCHANGED <<error, mappings, traceEnabled, traceFolder, manualApprove,
                   request, anthropicPayload, traceTimestamp, backendCalls,
                   response, body, streamState, tracerChunks, pending,
                   written, fed, last, nRaw, rawLimit>>
    /\ flushes' = Append(flushes, Len(written))
    /\ UNCHANGED <<steps, rawSeen>>
    /\ UNCHANGED otherVars

(***************************************************************************)
(* Model mapping (src/lib/model-mapping.ts).  A Map is a function on the   *)
(* set of its keys; Map.get of a missing key is Undefined.                 *)
(***************************************************************************)
Undefined == "undefined"

Models == {"claude-sonnet-4", "claude-opus-4", "gpt-4"}

MapOf(pairs) ==
    [s \in {p[1] : p \in pairs} |-> CHOOSE t \in Models : <<s, t>> \in pairs]

\* Maps getModelMappings() can return: none configured, one mapping, and two
\* mappings where the target of the first is the source of the second.
MappingChoices ==
    {MapOf({}),
     MapOf({<<"claude-sonnet-4", "claude-opus-4">>}),
     MapOf({<<"claude-sonnet-4", "claude-opus-4">>,
            <<"claude-opus-4", "gpt-4">>})}

mapGet(m, key) == IF key \in DOMAIN m THEN m[key] ELSE Undefined

truthy(v) == v # Undefined /\ v # ""

\* A lookup that follows the target through the mappings once more.
applyModelMappingChained(modelName, m) ==
    LET mappedModel == mapGet(m, modelName)
    IN  IF truthy(mappedModel)
        THEN [model |-> IF truthy(mapGet(m, mappedModel))
                        THEN mapGet(m, mappedModel) ELSE mappedModel,
              mapped |-> TRUE]
        ELSE [model |-> modelName, mapped |-> FALSE]

applyModelMapping(modelName, m) ==
    LET mappedModel == mapGet(m, modelName)
    IN  IF truthy(mappedModel)
        THEN [model |-> mappedModel, mapped |-> TRUE]
        ELSE [model |-> modelName, mapped |-> FALSE]

\* handler.ts lines 33-40: the payload after the optional mapping.
mappedPayload(payload, m) ==
    IF Cardinality(DOMAIN m) > 0
    THEN LET r == applyModelMapping(payload.model, m)
         IN  IF r.mapped THEN [payload EXCEPT !.model = r.model] ELSE payload
    ELSE payload

(***************************************************************************)
(* Request and non-stream translation (design 4.1, 4.2).                   *)
(***************************************************************************)
translateToOpenAI(payload) ==
    [model |-> payload.model, stream |-> payload.stream,
     max_tokens |-> payload.max_tokens]

\* Design 4.1: a payload without max_tokens is a validation error.
validRequest(payload) == payload.max_tokens # Undefined

\* JSON.parse of a tool call's arguments, on the strings the backend sends
\* here: an object as a sequence of <<key, value>>, or a failure.
jsonParse(str) ==
    CASE str = "{\"city\":\"NYC\"}" ->
             [ok |-> TRUE, value |-> << <<"city", "NYC">> >>]
      [] str = "{}" -> [ok |-> TRUE, value |-> <<>>]
      [] OTHER -> [ok |-> FALSE, value |-> <<>>]

Responses ==
    {[content |-> "hello", tool_calls |-> <<>>, finish_reason |-> "stop"],
     [content |-> "", tool_calls |-> <<>>, finish_reason |-> "length"],
     [content |-> "",
      tool_calls |-> <<Entry(0, "t1", "get_weather", "{\"city\":\"NYC\"}")>>,
      finish_reason |-> "tool_calls"],
     [content |-> "hello",
      tool_calls |-> <<Entry(0, "t1", "get_weather", "{\"city\":")>>,
      finish_reason |-> "tool_calls"],
     [content |-> "hello", tool_calls |-> <<>>,
      finish_reason |-> "content_filter"],
     [content |-> "hello", tool_calls |-> <<>>, finish_reason |-> "other"]}

NoResponse == [content |-> "", tool_calls |-> <<>>, finish_reason |-> ""]

toolUseBlocks(calls) ==
    [i \in 1..Len(calls) |->
        [type |-> "tool_use", text |-> "", id |-> calls[i].id,
         name |-> calls[i].name, input |-> jsonParse(calls[i].arguments).value]]

\* [ok |-> FALSE] stands for the translator throwing.
translateToAnthropic(r) ==
    IF \E i \in 1..Len(r.tool_calls) : ~jsonParse(r.tool_calls[i].arguments).ok
    THEN [ok |-> FALSE, content |-> <<>>, stop_reason |-> ""]
    ELSE [ok |-> TRUE,
          content |->
              (IF r.content = "" THEN <<>>
               ELSE <<[type |-> "text", text |-> r.content, id |-> "",
                       name |-> "", input |-> <<>>]>>)
              \o toolUseBlocks(r.tool_calls),
          stop_reason |-> mapStopReason(r.finish_reason)]

(***************************************************************************)
(* handleCompletion up to the backend call, and the non-streaming branch.  *)
(***************************************************************************)
Requests ==
    {[json |-> TRUE, model |-> m, stream |-> s, max_tokens |-> "1024"] :
        m \in Models, s \in BOOLEAN}
    \cup {[json |-> TRUE, model |-> "gpt-4", stream |-> s,
            max_tokens |-> Undefined] : s \in BOOLEAN}
    \cup {[json |-> FALSE, model |-> "", stream |-> FALSE,
            max_tokens |-> Undefined]}

NoPayload ==
    [json |-> FALSE, model |-> "", stream |-> FALSE, max_tokens |-> Undefined]

\* getTimestamp: the file-name stamp of the millisecond of the call.
Stamps ==
    <<"20251204_143052_123", "20251204_143052_124", "20251204_143052_125",
      "20251204_143052_126">>

getTimestamp == Stamps[clock]

\* handler.ts lines 48-58 after the request trace: translateToOpenAI throws,
\* or the approval gate is next, or the backend call is.
afterTrace ==
    IF ~validRequest(anthropicPayload) THEN "failed"
    ELSE IF manualApprove THEN "approval" ELSE "backend"

errorAfterTrace ==
    IF ~validRequest(anthropicPayload) THEN "validation" ELSE error

\* await checkRateLimit(state)
CheckRateLimit ==
    /\ pc = "rateLimit"
    /\ \E ok \in BOOLEAN :
          /\ pc' = IF ok THEN "readPayload" ELSE "failed"
          /\ error' = IF ok THEN error ELSE "rate_limit"
    /\ UNCHANGED <<mappings, traceEnabled, traceFolder, manualApprove, request,
                   anthropicPayload, traceTimestamp, traceFiles, traceFailures,
                   backendCalls, response, body, streamState, tracerChunks,
                   pending, written, fed, last, nRaw, rawLimit>>
    /\ steps' = Append(steps, "rateLimit")
    /\ UNCHANGED <<flushes, rawSeen>>
    /\ UNCHANGED otherVars

\* await c.req.json(), then the model mapping
ReadPayload ==
    /\ pc = "readPayload"
    /\ IF request.json
       THEN /\ anthropicPayload' = mappedPayload(request, mappings)
            /\ pc' = "traceRequest"
            /\ error' = error
       ELSE /\ pc' = "failed"
            /\ error' = "payload"
            /\ UNCHANGED anthropicPayload
    /\ UNCHANGED <<mappings, traceEnabled, traceFolder, manualApprove, request,
                   traceTimestamp, traceFiles, traceFailures, backendCalls,
                   response, body, streamState, tracerChunks, pending, written,
                   fed, last, nRaw, rawLimit>>
    /\ steps' = IF request.json THEN Append(steps, "mapping") ELSE steps
    /\ UNCHANGED <<flushes, rawSeen>>
    /\ UNCHANGED otherVars

\* A handler that traces the payload as it came in.
requestTraceUnmapped == [type |-> "anthropic", original |-> request]

\* handler.ts lines 43-46: the argument of traceRequest.
requestTrace == [type |-> "anthropic", original |-> anthropicPayload]

\* A traceRequest whose write is not inside try/catch.
TraceRequestUncaught ==
    /\ pc = "traceRequest"
    /\ IF ~traceEnabled \/ traceFolder = ""
       THEN /\ traceTimestamp' = Null
            /\ pc' = afterTrace
            /\ error' = errorAfterTrace
            /\ UNCHANGED <<traceFiles, traceFailures>>
       ELSE \E ok \in BOOLEAN :
               IF ok
               THEN /\ traceTimestamp' = getTimestamp
                    /\ traceFiles' =
                          Append(traceFiles,
                                 [name |-> <<getTimestamp, ".req">>,
                                  content |-> requestTrace])
                    /\ pc' = afterTrace
                    /\ error' = errorAfterTrace
                    /\ UNCHANGED traceFailures
               ELSE /\ traceFailures' = traceFailures + 1
                    /\ pc' = "failed"
                    /\ error' = "trace"
                    /\ UNCHANGED <<traceFiles, traceTimestamp>>
    /\ UNCHANGED <<mappings, traceEnabled, traceFolder, manualApprove,
                   request, anthropicPayload, backendCalls, response, body,
                   streamState, tracerChunks, pending, written, fed, last,
                   nRaw, rawLimit>>
    /\ steps' = steps \o <<"traceRequest", "translateToOpenAI">>
    /\ UNCHANGED <<flushes, rawSeen>>
    /\ UNCHANGED otherVars

\* await traceRequest(...), then translateToOpenAI
TraceRequest ==
    /\ pc = "traceRequest"
    /\ IF ~traceEnabled \/ traceFolder = ""
       THEN /\ traceTimestamp' = Null
            /\ UNCHANGED <<traceFiles, traceFailures>>
       ELSE \E ok \in BOOLEAN :
               IF ok
               THEN /\ traceTimestamp' = getTimestamp
                    /\ traceFiles' =
                          Append(traceFiles,
                                 [name |-> <<getTimestamp, ".req">>,
                                  content |-> requestTrace])
                    /\ UNCHANGED traceFailures
               ELSE /\ traceTimestamp' = Null
                    /\ traceFailures' = traceFailures + 1
                    /\ UNCHANGED traceFiles
    /\ pc' = afterTrace
    /\ error' = errorAfterTrace
    /\ UNCHANGED <<mappings, traceEnabled, traceFolder, manualApprove,
                   request, anthropicPayload, backendCalls, response, body,
                   streamState, tracerChunks, pending, written, fed, last,
                   nRaw, rawLimit>>
    /\ steps' = steps \o <<"traceRequest", "translateToOpenAI">>
    /\ UNCHANGED <<flushes, rawSeen>>
    /\ UNCHANGED otherVars

\* A handler that does not wait for the approval's outcome.
AwaitApprovalNotAwaited ==
    /\ pc = "approval"
    /\ \E ok \in BOOLEAN :
          /\ pc' = "backend"
          /\ error' = IF ok THEN error ELSE "approval"
    /\ UNCHANGED <<mappings, traceEnabled, traceFolder, manualApprove, request,
                   anthropicPayload, traceTimestamp, traceFiles, traceFailures,
                   backendCalls, response, body, streamState, tracerChunks,
                   pending, written, fed, last, nRaw, rawLimit>>
    /\ steps' = Append(steps, "approval")
    /\ UNCHANGED <<flushes, rawSeen>>
    /\ UNCHANGED otherVars

\* await awaitApproval()
AwaitApproval ==
    /\ pc = "approval"
    /\ \E ok \in BOOLEAN :
          /\ pc' = IF ok THEN "backend" ELSE "failed"
          /\ error' = IF ok THEN error ELSE "approval"
    /\ UNCHANGED <<mappings, traceEnabled, traceFolder, manualApprove, request,
                   anthropicPayload, traceTimestamp, traceFiles, traceFailures,
                   backendCalls, response, body, streamState, tracerChunks,
                   pending, written, fed, last, nRaw, rawLimit>>
    /\ steps' = Append(steps, "approval")
    /\ UNCHANGED <<flushes, rawSeen>>
    /\ UNCHANGED otherVars

\* What createChatCompletions gives for a payload: it throws, or a complete
\* response (stream false), or a chunk sequence (stream true).
BackendOutcomes(payload) ==
    {[kind |-> "throw", response |-> NoResponse]}
    \cup (IF payload.stream
          THEN {[kind |-> "stream", response |-> NoResponse]}
          ELSE {[kind |-> "response", response |-> r] : r \in Responses})

\* await createChatCompletions(openAIPayload), then the branch on the result
CreateChatCompletions ==
    /\ pc = "backend"
    /\ backendCalls' = Append(backendCalls, translateToOpenAI(anthropicPayload))
    /\ \E out \in BackendOutcomes(translateToOpenAI(anthropicPayload)) :
          /\ response' = out.response
          /\ pc' = CASE out.kind = "throw" -> "failed"
                     [] out.kind = "stream" -> "loop"
                     [] translateToAnthropic(out.response).ok -> "traceResponse"
                     [] OTHER -> "failed"
          /\ error' = CASE out.kind = "throw" -> "backend"
                        [] out.kind = "stream" -> error
                        [] translateToAnthropic(out.response).ok -> error
                        [] OTHER -> "translation"
    /\ streamState' = NewStreamState
    /\ tracerChunks' = <<>>
    /\ UNCHANGED <<mappings, traceEnabled, traceFolder, manualApprove, request,
                   anthropicPayload, traceTimestamp, traceFiles, traceFailures,
                   body, pending, written, fed, last, nRaw, rawLimit>>
    /\ steps' = Append(steps, "backend")
    /\ UNCHANGED <<flushes, rawSeen>>
    /\ UNCHANGED otherVars

\* await traceResponse(...), then return c.json(anthropicResponse)
TraceResponse ==
    /\ pc = "traceResponse"
    /\ IF ~traceEnabled \/ traceFolder = "" \/ traceTimestamp = Null
       THEN UNCHANGED <<traceFiles, traceFailures>>
       ELSE \E ok \in BOOLEAN :
               IF ok
               THEN /\ traceFiles' =
                          Append(traceFiles,
                                 [name |-> <<traceTimestamp, ".resp">>,
                                  content |->
                                      [type |-> "anthropic",
                                       openai |-> response,
                                       translated |->
                                           translateToAnthropic(response)]])
                    /\ UNCHANGED traceFailures
               ELSE /\ traceFailures' = traceFailures + 1
                    /\ UNCHANGED traceFiles
    /\ body' = Append(body, translateToAnthropic(response))
    /\ pc' = "done"
    /\ UNCHANGED <<error, mappings, traceEnabled, traceFolder, manualApprove,
                   request, anthropicPayload, traceTimestamp, backendCalls,
                   response, streamState, tracerChunks, pending, written, fed,
                   last, nRaw, rawLimit>>
    /\ UNCHANGED <<steps, flushes, rawSeen>>
    /\ UNCHANGED otherVars

(***************************************************************************)
(* Specifications.                                                         *)
(*   Spec        one request through the whole of handleCompletion.        *)
(*   StreamSpec  the streaming callback alone, from the moment the backend *)
(*               has returned a chunk sequence, over longer sequences.     *)
(***************************************************************************)
TraceConfigs ==
    {[enabled |-> FALSE, folder |-> ""],
     [enabled |-> TRUE, folder |-> ""],
     [enabled |-> TRUE, folder |-> "traces"]}

\* Nothing outside the one handler is in motion.
OthersIdle ==
    /\ clientGone = FALSE
    /\ cancelMark = <<>>
    /\ env = <<Undefined>>
    /\ cachedMappings = <<>>
    /\ cachedEnvValue = <<Undefined>>
    /\ cacheLog = <<>>
    /\ parseInput = <<Undefined>>
    /\ parseResult = <<>>
    /\ reqs = <<>>
    /\ clock = 1

Init ==
    /\ pc = "rateLimit"
    /\ error = ""
    /\ mappings \in MappingChoices
    /\ \E t \in TraceConfigs :
          /\ traceEnabled = t.enabled
          /\ traceFolder = t.folder
    /\ manualApprove \in BOOLEAN
    /\ request \in Requests
    /\ anthropicPayload = NoPayload
    /\ traceTimestamp = Null
    /\ traceFiles = <<>>
    /\ traceFailures = 0
    /\ backendCalls = <<>>
    /\ response = NoResponse
    /\ body = <<>>
    /\ streamState = NewStreamState
    /\ tracerChunks = <<>>
    /\ pending = <<>>
    /\ written = <<>>
    /\ fed = <<>>
    /\ last = <<>>
    /\ nRaw = 0
    /\ rawLimit = MaxHandlerChunks
    /\ steps = <<>>
    /\ flushes = <<>>
    /\ rawSeen = <<>>
    /\ OthersIdle

Next ==
    \/ CheckRateLimit
    \/ ReadPayload
    \/ TraceRequest
    \/ AwaitApproval
    \/ CreateChatCompletions
    \/ TraceResponse
    \/ StreamReceive
    \/ StreamWrite
    \/ StreamTracerFinish

Spec == Init /\ [][Next]_vars

StreamRequest ==
    [json |-> TRUE, model |-> "claude-sonnet-4", stream |-> TRUE,
     max_tokens |-> "1024"]

\* The handler's state when the streaming callback starts: tracing off, the
\* request trace written, or the request trace failed.
StreamStart(limit) ==
    /\ OthersIdle
    /\ pc = "loop"
    /\ error = ""
    /\ mappings = MapOf({<<"claude-sonnet-4", "claude-opus-4">>})
    /\ manualApprove = FALSE
    /\ request = StreamRequest
    /\ anthropicPayload = mappedPayload(StreamRequest, mappings)
    /\ \/ /\ traceEnabled = FALSE
          /\ traceFolder = ""
          /\ traceTimestamp = Null
          /\ traceFiles = <<>>
          /\ traceFailures = 0
       \/ /\ traceEnabled = TRUE
          /\ traceFolder = "traces"
          /\ traceTimestamp = getTimestamp
          /\ traceFiles = <<[name |-> <<getTimestamp, ".req">>,
                             content |-> [type |-> "anthropic",
                                          original |-> anthropicPayload]]>>
          /\ traceFailures = 0
    /\ backendCalls = <<translateToOpenAI(anthropicPayload)>>
    /\ response = NoResponse
    /\ body = <<>>
    /\ streamState = NewStreamState
    /\ tracerChunks = <<>>
    /\ pending = <<>>
    /\ written = <<>>
    /\ fed = <<>>
    /\ last = <<>>
    /\ nRaw = 0
    /\ rawLimit = limit
    /\ steps = <<"rateLimit", "mapping", "traceRequest", "translateToOpenAI",
                 "backend">>
    /\ flushes = <<>>
    /\ rawSeen = <<>>

StreamInit == StreamStart(MaxChunks)

StreamNext ==
    \/ StreamReceive
    \/ StreamWrite
    \/ StreamTracerFinish

StreamSpec == StreamInit /\ [][StreamNext]_vars

(***************************************************************************)
(*   CancelSpec  the streaming callback with a client that can disconnect  *)
(*               at any moment of the stream (design 5).                   *)
(***************************************************************************)
ClientDisconnect ==
    /\ pc \in {"loop", "write"}
    /\ ~clientGone
    /\ clientGone' = TRUE
    /\ cancelMark' = <<[fed |-> Len(fed), written |-> Len(written)]>>
    /\ UNCHANGED <<pc, error, mappings, traceEnabled, traceFolder,
                   manualApprove, request, anthropicPayload, traceTimestamp,
                   traceFiles, traceFailures, backendCalls, response, body,
                   streamState, tracerChunks, pending, written, fed, last,
                   nRaw, rawLimit, steps, flushes, rawSeen, env,
                   cachedMappings, cachedEnvValue, cacheLog, parseInput,
                   parseResult, reqs, clock>>

CancelInit == StreamStart(MaxHandlerChunks)

CancelNext ==
    \/ StreamReceive
    \/ StreamWrite
    \/ StreamTracerFinish
    \/ ClientDisconnect

CancelSpec == CancelInit /\ [][CancelNext]_vars

(***************************************************************************)
(* model-mapping.ts: parseModelMappings.  A string is the sequence of its  *)
(* characters, so that split, trim, indexOf and slice act as they do on a  *)
(* JavaScript string; a Map<string, string> is the function from its keys  *)
(* to their values.                                                        *)
(***************************************************************************)
MaxPairs == 3

\* The value undefined where a string is expected.
UndefinedStr == <<Undefined>>

Space == " "

RECURSIVE trimStart(_)
trimStart(s) ==
    IF s # <<>> /\ Head(s) = Space THEN trimStart(Tail(s)) ELSE s

RECURSIVE trimEnd(_)
trimEnd(s) ==
    IF s # <<>> /\ s[Len(s)] = Space
    THEN trimEnd(SubSeq(s, 1, Len(s) - 1))
    ELSE s

\* String.prototype.trim
trim(s) == trimEnd(trimStart(s))

\* String.prototype.indexOf: the 0-based place of the first c, or -1
indexOf(s, c) ==
    IF \E i \in 1..Len(s) : s[i] = c
    THEN (CHOOSE i \in 1..Len(s) :
              s[i] = c /\ \A j \in 1..(i - 1) : s[j] # c) - 1
    ELSE -1

\* String.prototype.slice(from, to) and slice(from), 0-based, to excluded
slice(s, from, to) == SubSeq(s, from + 1, to)

sliceFrom(s, from) == SubSeq(s, from + 1, Len(s))

\* String.prototype.split(sep)
RECURSIVE split(_, _)
split(s, sep) ==
    IF indexOf(s, sep) = -1
    THEN <<s>>
    ELSE <<slice(s, 0, indexOf(s, sep))>>
             \o split(sliceFrom(s, indexOf(s, sep) + 1), sep)

\* Map.prototype.set
mapSet(m, k, v) == [x \in DOMAIN m \cup {k} |-> IF x = k THEN v ELSE m[x]]

\* A loop body that keeps the entry a source already has.
parsePairFirstWins(m, pair) ==
    LET trimmedPair == trim(pair)
        colonIndex == indexOf(trimmedPair, ":")
        source == trim(slice(trimmedPair, 0, colonIndex))
        target == trim(sliceFrom(trimmedPair, colonIndex + 1))
    IN  IF trimmedPair = <<>> THEN m
        ELSE IF colonIndex = -1 THEN m
        ELSE IF source = <<>> \/ target = <<>> THEN m
        ELSE IF source \in DOMAIN m THEN m
        ELSE mapSet(m, source, target)

\* model-mapping.ts lines 16-35: the body of the loop over the pairs
parsePair(m, pair) ==
    LET trimmedPair == trim(pair)
        colonIndex == indexOf(trimmedPair, ":")
        source == trim(slice(trimmedPair, 0, colonIndex))
        target == trim(sliceFrom(trimmedPair, colonIndex + 1))
    IN  IF trimmedPair = <<>> THEN m
        ELSE IF colonIndex = -1 THEN m
        ELSE IF source = <<>> \/ target = <<>> THEN m
        ELSE mapSet(m, source, target)

RECURSIVE parsePairs(_, _)
parsePairs(m, pairs) ==
    IF pairs = <<>> THEN m
    ELSE parsePairs(parsePair(m, Head(pairs)), Tail(pairs))

parseModelMappings(envValue) ==
    IF envValue = UndefinedStr \/ envValue = <<>> \/ trim(envValue) = <<>>
    THEN <<>>
    ELSE parsePairs(<<>>, split(envValue, ","))

\* The texts between the commas of the inputs: empty, blank, without a
\* colon, without a source, without a target, with a blank target, valid,
\* valid with the same source, valid with another source, padded with
\* blanks, and with a colon in the target.
PairTexts ==
    {<<>>,
     <<" ">>,
     <<"a">>,
     <<":", "b">>,
     <<"a", ":">>,
     <<"a", ":", " ">>,
     <<"a", ":", "b">>,
     <<"a", ":", "a">>,
     <<"b", ":", "a">>,
     <<" ", "b", " ", ":", " ", "a", " ">>,
     <<"b", ":", "a", ":", "b">>}

RECURSIVE join(_)
join(pairs) ==
    IF Len(pairs) = 1 THEN pairs[1]
    ELSE pairs[1] \o <<",">> \o join(Tail(pairs))

ParseInputs ==
    {UndefinedStr}
    \cup {join(ps) : ps \in UNION {[1..n -> PairTexts] : n \in 1..MaxPairs}}

\* The handler's variables when no request is in flight through it.
HandlerIdleTracing(enabled, folder) ==
    /\ pc = "idle"
    /\ error = ""
    /\ mappings = MapOf({})
    /\ traceEnabled = enabled
    /\ traceFolder = folder
    /\ manualApprove = FALSE
    /\ request = NoPayload
    /\ anthropicPayload = NoPayload
    /\ traceTimestamp = Null
    /\ traceFiles = <<>>
    /\ traceFailures = 0
    /\ backendCalls = <<>>
    /\ response = NoResponse
    /\ body = <<>>
    /\ streamState = NewStreamState
    /\ tracerChunks = <<>>
    /\ pending = <<>>
    /\ written = <<>>
    /\ fed = <<>>
    /\ last = <<>>
    /\ nRaw = 0
    /\ rawLimit = 0
    /\ steps = <<>>
    /\ flushes = <<>>
    /\ rawSeen = <<>>

HandlerIdle == HandlerIdleTracing(FALSE, "")

(***************************************************************************)
(*   ParseSpec   one call of parseModelMappings on each input.             *)
(***************************************************************************)
ParseInit ==
    /\ HandlerIdle
    /\ clientGone = FALSE
    /\ cancelMark = <<>>
    /\ env = UndefinedStr
    /\ cachedMappings = <<>>
    /\ cachedEnvValue = UndefinedStr
    /\ cacheLog = <<>>
    /\ parseInput \in ParseInputs
    /\ parseResult = <<>>
    /\ reqs = <<>>
    /\ clock = 1

ParseModelMappings ==
    /\ parseResult = <<>>
    /\ parseResult' = <<parseModelMappings(parseInput)>>
    /\ UNCHANGED handlerVars
    /\ UNCHANGED <<clientGone, cancelMark, env, cachedMappings,
                   cachedEnvValue, cacheLog, parseInput, reqs, clock>>

ParseNext == ParseModelMappings

ParseSpec == ParseInit /\ [][ParseNext]_vars

(***************************************************************************)
(* model-mapping.ts: getModelMappings and its cache.  A Map instance is    *)
(* [id, map]: two instances with the same entries differ in id.  cacheLog  *)
(* is the log of what was done, [op, env, inst, parsed] for each call.     *)
(***************************************************************************)
MaxCalls == 4

EnvValues ==
    {UndefinedStr, <<>>, <<"a", ":", "b">>, <<"a", ":", "a">>}

Parses == Cardinality({i \in 1..Len(cacheLog) : cacheLog[i].parsed})

\* process.env.MODEL_MAPPINGS = v, or delete process.env.MODEL_MAPPINGS
SetEnv ==
    /\ Len(cacheLog) < MaxCalls
    /\ \E v \in EnvValues \ {env} :
          /\ env' = v
          /\ cacheLog' = Append(cacheLog, [op |-> "set", env |-> v,
                                           inst |-> <<>>, parsed |-> FALSE])
    /\ UNCHANGED handlerVars
    /\ UNCHANGED <<clientGone, cancelMark, cachedMappings, cachedEnvValue,
                   parseInput, parseResult, reqs, clock>>

\* A cache test that does not compare the environment value.
cacheHitAnyEnv == cachedMappings # <<>>

\* model-mapping.ts line 72
cacheHit == cachedMappings # <<>> /\ cachedEnvValue = env

GetModelMappings ==
    /\ Len(cacheLog) < MaxCalls
    /\ IF cacheHit
       THEN /\ UNCHANGED <<cachedMappings, cachedEnvValue>>
            /\ cacheLog' = Append(cacheLog, [op |-> "get", env |-> env,
                                       inst |-> cachedMappings,
                                       parsed |-> FALSE])
       ELSE /\ cachedEnvValue' = env
            /\ cachedMappings' = <<[id |-> Parses + 1,
                                    map |-> parseModelMappings(env)]>>
            /\ cacheLog' = Append(cacheLog, [op |-> "get", env |-> env,
                                       inst |-> cachedMappings',
                                       parsed |-> TRUE])
    /\ UNCHANGED handlerVars
    /\ UNCHANGED <<clientGone, cancelMark, env, parseInput, parseResult,
                   reqs, clock>>

ClearModelMappingsCache ==
    /\ Len(cacheLog) < MaxCalls
    /\ cachedMappings' = <<>>
    /\ cachedEnvValue' = UndefinedStr
    /\ cacheLog' = Append(cacheLog, [op |-> "clear", env |-> env,
                                     inst |-> <<>>, parsed |-> FALSE])
    /\ UNCHANGED handlerVars
    /\ UNCHANGED <<clientGone, cancelMark, env, parseInput, parseResult,
                   reqs, clock>>

(***************************************************************************)
(*   CacheSpec   any sequence of environment changes, getModelMappings     *)
(*               calls and clearModelMappingsCache calls.                  *)
(***************************************************************************)
CacheInit ==
    /\ HandlerIdle
    /\ clientGone = FALSE
    /\ cancelMark = <<>>
    /\ env \in EnvValues
    /\ cachedMappings = <<>>
    /\ cachedEnvValue = UndefinedStr
    /\ cacheLog = <<>>
    /\ parseInput = UndefinedStr
    /\ parseResult = <<>>
    /\ reqs = <<>>
    /\ clock = 1

CacheNext ==
    \/ SetEnv
    \/ GetModelMappings
    \/ ClearModelMappingsCache

CacheSpec == CacheInit /\ [][CacheNext]_vars

(***************************************************************************)
(*   ConcSpec    two streaming requests in flight together.  Each has its  *)
(*               own handleCompletion activation, reqs[r], holding that    *)
(*               activation's locals; state.traceEnabled, the trace folder *)
(*               and the wall clock are shared.  An activation runs from   *)
(*               one await to the next, and then either may go on.         *)
(***************************************************************************)
MaxConcChunks == 2
MaxClock == 2

RequestIds == {1, 2}

ConcChunks ==
    {Chunk("Hello", <<>>, ""),
     Chunk("", <<OpenEntry(0)>>, "")}

ConcRequest(r) ==
    [json |-> TRUE,
     model |-> IF r = 1 THEN "claude-sonnet-4" ELSE "gpt-4",
     stream |-> TRUE,
     max_tokens |-> "1024"]

\* The locals of an activation that is about to trace its request.
NewHandler ==
    [pc |-> "traceRequest",
     traceTimestamp |-> Null,
     streamState |-> NewStreamState,
     tracerChunks |-> <<>>,
     chunk |-> EmptyChunk,
     pending |-> <<>>,
     written |-> <<>>,
     fed |-> <<>>,
     nRaw |-> 0]

\* What the steps of ConcSpec leave alone.
concFixed == <<pc, error, mappings, traceEnabled, traceFolder, manualApprove,
               request, anthropicPayload, traceTimestamp, backendCalls,
               response, body, streamState, tracerChunks, pending, written,
               fed, last, nRaw, rawLimit, steps, flushes, rawSeen, clientGone,
               cancelMark, env, cachedMappings, cachedEnvValue, cacheLog,
               parseInput, parseResult>>

\* The wall clock reaches the next millisecond.
Tick ==
    /\ clock < MaxClock
    /\ clock' = clock + 1
    /\ UNCHANGED <<reqs, traceFiles, traceFailures>>
    /\ UNCHANGED concFixed

\* await traceRequest(...) of activation r
ConcTraceRequest(r) ==
    /\ reqs[r].pc = "traceRequest"
    /\ IF ~traceEnabled \/ traceFolder = ""
       THEN /\ reqs' = [reqs EXCEPT ![r].pc = "backend"]
            /\ UNCHANGED <<traceFiles, traceFailures>>
       ELSE \E ok \in BOOLEAN :
               IF ok
               THEN /\ reqs' = [reqs EXCEPT ![r].pc = "backend",
                                            ![r].traceTimestamp = getTimestamp]
                    /\ traceFiles' =
                          Append(traceFiles,
                                 [name |-> <<getTimestamp, ".req">>,
                                  content |-> [type |-> "anthropic",
                                               original |-> ConcRequest(r)],
                                  by |-> r])
                    /\ UNCHANGED traceFailures
               ELSE /\ reqs' = [reqs EXCEPT ![r].pc = "backend"]
                    /\ traceFailures' = traceFailures + 1
                    /\ UNCHANGED traceFiles
    /\ UNCHANGED clock
    /\ UNCHANGED concFixed

\* await createChatCompletions(...) of activation r gives a chunk sequence;
\* the streaming callback starts and allocates its state and its tracer.
ConcStreamStart(r) ==
    /\ reqs[r].pc = "backend"
    /\ reqs' = [reqs EXCEPT ![r].pc = "loop",
                            ![r].streamState = NewStreamState,
                            ![r].tracerChunks = <<>>]
    /\ UNCHANGED <<traceFiles, traceFailures, clock>>
    /\ UNCHANGED concFixed

\* A handler whose stream state is one object shared by the activations.
stateOfShared(rs, r) == rs[1].streamState

\* handler.ts lines 84-89 and 104: the state the translator is called with
\* is the local of this activation's callback.
stateOf(rs, r) == rs[r].streamState

\* One turn of the chunk loop of activation r up to the inner loop.
ConcReceive(r) ==
    /\ reqs[r].pc = "loop"
    /\ \/ reqs' = [reqs EXCEPT ![r].pc = "finish"]
       \/ /\ reqs[r].nRaw < MaxConcChunks
          /\ \E c \in ConcChunks :
                LET t == translated(c, stateOf(reqs, r))
                IN  reqs' = [reqs EXCEPT
                                ![r].nRaw = @ + 1,
                                ![r].streamState = t.st,
                                ![r].pending = t.ev,
                                ![r].chunk = c,
                                ![r].fed = Append(@, c),
                                ![r].pc = IF t.ev = <<>> THEN "loop"
                                          ELSE "write"]
    /\ UNCHANGED <<traceFiles, traceFailures, clock>>
    /\ UNCHANGED concFixed

\* One turn of the inner loop of activation r.
ConcWrite(r) ==
    /\ reqs[r].pc = "write"
    /\ reqs' = [reqs EXCEPT
                   ![r].tracerChunks =
                       addChunk(@, [openai |-> reqs[r].chunk,
                                    anthropic |-> Head(reqs[r].pending)]),
                   ![r].written = Append(@, Head(reqs[r].pending)),
                   ![r].pending = Tail(@),
                   ![r].pc = IF Tail(reqs[r].pending) = <<>> THEN "loop"
                             ELSE "write"]
    /\ UNCHANGED <<traceFiles, traceFailures, clock>>
    /\ UNCHANGED concFixed

\* await streamTracer.finish() of activation r
ConcTracerFinish(r) ==
    /\ reqs[r].pc = "finish"
    /\ IF ~traceEnabled \/ traceFolder = "" \/ reqs[r].traceTimestamp = Null
       THEN UNCHANGED <<traceFiles, traceFailures>>
       ELSE \E ok \in BOOLEAN :
               IF ok
               THEN /\ traceFiles' =
                          Append(traceFiles,
                                 [name |-> <<reqs[r].traceTimestamp, ".resp">>,
                                  content |->
                                      [streaming |-> TRUE,
                                       chunks |-> reqs[r].tracerChunks],
                                  by |-> r])
                    /\ UNCHANGED traceFailures
               ELSE /\ traceFailures' = traceFailures + 1
                    /\ UNCHANGED traceFiles
    /\ reqs' = [reqs EXCEPT ![r].pc = "done"]
    /\ UNCHANGED clock
    /\ UNCHANGED concFixed

ConcInit ==
    /\ \E t \in {[enabled |-> FALSE, folder |-> ""],
                 [enabled |-> TRUE, folder |-> "traces"]} :
          HandlerIdleTracing(t.enabled, t.folder)
    /\ clientGone = FALSE
    /\ cancelMark = <<>>
    /\ env = UndefinedStr
    /\ cachedMappings = <<>>
    /\ cachedEnvValue = UndefinedStr
    /\ cacheLog = <<>>
    /\ parseInput = UndefinedStr
    /\ parseResult = <<>>
    /\ reqs = [r \in RequestIds |-> NewHandler]
    /\ clock = 1

ConcNext ==
    \/ Tick
    \/ \E r \in RequestIds :
          \/ ConcTraceRequest(r)
          \/ ConcStreamStart(r)
          \/ ConcReceive(r)
          \/ ConcWrite(r)
          \/ ConcTracerFinish(r)

ConcSpec == ConcInit /\ [][ConcNext]_vars

(***************************************************************************)
(* Helpers of the properties.                                              *)
(***************************************************************************)
Count(events, type) ==
    Cardinality({i \in 1..Len(events) : events[i].type = type})

Prefix(events, n) == SubSeq(events, 1, n)

Suffix(events, n) ==
    IF n <= Len(events)
    THEN SubSeq(events, Len(events) - n + 1, Len(events))
    ELSE events

\* The translator run over a whole chunk sequence from a fresh state.
RECURSIVE runTranslator(_, _, _)
runTranslator(chunks, st, ev) ==
    IF chunks = <<>>
    THEN [st |-> st, ev |-> ev]
    ELSE LET r == translateChunkToAnthropicEvents(Head(chunks), st)
         IN  runTranslator(Tail(chunks), r.st, ev \o r.ev)

expectedEvents(chunks) == runTranslator(chunks, NewStreamState, <<>>).ev

FinishFed == \E i \in 1..Len(fed) : fed[i].finish_reason # ""

(***************************************************************************)
(* C1.  For every chunk sequence that holds a finish_reason chunk, the     *)
(* frames the client got when the stream ended start with message_start    *)
(* and end with message_stop, and each of the two occurs exactly once.     *)
(* (Refuted: chunks that follow the finish_reason chunk are translated     *)
(* too.)                                                                   *)
(***************************************************************************)
C1_StartFirstStopLastOnce ==
    (pc = "done" /\ FinishFed) =>
        /\ written # <<>>
        /\ written[1].type = "message_start"
        /\ written[Len(written)].type = "message_stop"
        /\ Count(written, "message_start") = 1
        /\ Count(written, "message_stop") = 1

(***************************************************************************)
(* C2.  When the backend sequence ends, by "[DONE]" or by exhaustion,      *)
(* after at least one chunk was translated and none carried a              *)
(* finish_reason, the frames still end with exactly one message_stop.      *)
(* (Refuted: the loop ends and nothing more is written.)                   *)
(***************************************************************************)
C2_StopOnEarlyTermination ==
    (pc = "done" /\ fed # <<>> /\ ~FinishFed) =>
        /\ written # <<>>
        /\ written[Len(written)].type = "message_stop"
        /\ Count(written, "message_stop") = 1

(***************************************************************************)
(* C3.  Original: a content_block_start for i precedes every               *)
(* content_block_delta and content_block_stop for i, and no delta for i    *)
(* follows the content_block_stop for i.                                   *)
(***************************************************************************)
StartedBefore(j) ==
    \E i \in 1..(j - 1) :
        /\ written[i].type = "content_block_start"
        /\ written[i].index = written[j].index

StoppedBefore(j) ==
    \E i \in 1..(j - 1) :
        /\ written[i].type = "content_block_stop"
        /\ written[i].index = written[j].index

C3_BlockEventsOrdered ==
    \A j \in 1..Len(written) :
        /\ written[j].type \in {"content_block_delta", "content_block_stop"}
              => StartedBefore(j)
        /\ written[j].type = "content_block_delta" => ~StoppedBefore(j)

(***************************************************************************)
(* C3, amended.  A content_block_start for i precedes every                *)
(* content_block_delta and content_block_stop for i, and no text delta for *)
(* i follows the content_block_stop for i (an input_json_delta can: the    *)
(* fragment of a tool call whose block was closed goes to that block).     *)
(***************************************************************************)
C3_StartPrecedesAndTextNotAfterStop ==
    \A j \in 1..Len(written) :
        /\ written[j].type \in {"content_block_delta", "content_block_stop"}
              => StartedBefore(j)
        /\ written[j].kind = "text_delta" => ~StoppedBefore(j)

C3_Witness ==
    \E j \in 1..Len(written) :
        /\ written[j].kind = "text_delta"
        /\ StartedBefore(j)
        /\ \E i \in 1..(j - 1) : written[i].type = "content_block_stop"
        /\ \E i \in (j + 1)..Len(written) :
              /\ written[i].type = "content_block_stop"
              /\ written[i].index = written[j].index

(***************************************************************************)
(* C4.  In every prefix of the frames written, the content_block_start     *)
(* events exceed the content_block_stop events by at most one (and never   *)
(* by less than zero): the open block is stopped before the next starts.   *)
(***************************************************************************)
OpenBlocks(events) ==
    Count(events, "content_block_start") - Count(events, "content_block_stop")

C4_AtMostOneBlockOpen ==
    \A n \in 0..Len(written) : OpenBlocks(Prefix(written, n)) \in {0, 1}

C4_Witness ==
    /\ \E j \in 1..(Len(written) - 1) :
          /\ written[j].type = "content_block_stop"
          /\ written[j + 1].type = "content_block_start"
          /\ written[j + 1].kind = "tool_use"
          /\ \E i \in 1..(j - 1) : written[i].kind = "text"
    /\ \E j \in 1..(Len(written) - 1) :
          /\ written[j].type = "content_block_stop"
          /\ written[j + 1].type = "content_block_start"
          /\ written[j + 1].kind = "text"

(***************************************************************************)
(* C5.  Tool-call accumulation, on the frames written for the last chunk   *)
(* once all of them are written.  A chunk with one entry for a backend     *)
(* index k not seen before yields exactly one content_block_start, of a    *)
(* tool_use block with the entry's id and name, on the block index         *)
(* recorded for k.  A chunk with one entry for a known k and a fragment    *)
(* yields exactly one input_json_delta on the block index recorded for k,  *)
(* with the fragment unchanged.  For every k the fragments written to its  *)
(* block are the fragments fed for k, in arrival order.  A chunk with      *)
(* finish_reason "tool_calls" that finds a block open yields               *)
(* content_block_stop, message_delta(tool_use), message_stop.              *)
(***************************************************************************)
RECURSIVE FragmentsOfEntries(_, _)
FragmentsOfEntries(entries, k) ==
    IF entries = <<>>
    THEN <<>>
    ELSE (IF Head(entries).index = k /\ Head(entries).arguments # ""
          THEN <<Head(entries).arguments>> ELSE <<>>)
         \o FragmentsOfEntries(Tail(entries), k)

RECURSIVE FragmentsFed(_, _)
FragmentsFed(chunks, k) ==
    IF chunks = <<>>
    THEN <<>>
    ELSE FragmentsOfEntries(Head(chunks).tool_calls, k)
         \o FragmentsFed(Tail(chunks), k)

RECURSIVE FragmentsWritten(_, _)
FragmentsWritten(events, i) ==
    IF events = <<>>
    THEN <<>>
    ELSE (IF Head(events).kind = "input_json_delta" /\ Head(events).index = i
          THEN <<Head(events).text>> ELSE <<>>)
         \o FragmentsWritten(Tail(events), i)

OneEntryChunk(c) ==
    c.content = "" /\ c.finish_reason = "" /\ Len(c.tool_calls) = 1

LastFrames == Suffix(written, Len(last[1].events))

C5_ToolCallAccumulation ==
    (pc = "loop" /\ last # <<>>) =>
        LET c == last[1].chunk
            b == last[1].before
        IN  /\ (OneEntryChunk(c) /\ c.tool_calls[1].index \notin DOMAIN b.toolCalls) =>
                 LET e == c.tool_calls[1]
                     i == streamState.toolCalls[e.index].content_block_index
                 IN  /\ Count(LastFrames, "content_block_start") = 1
                     /\ \E j \in 1..Len(LastFrames) :
                           LastFrames[j] =
                               ContentBlockStart(i, "tool_use", e.id, e.name)
            /\ (OneEntryChunk(c) /\ c.tool_calls[1].index \in DOMAIN b.toolCalls
                    /\ c.tool_calls[1].arguments # "") =>
                 LET e == c.tool_calls[1]
                 IN  LastFrames =
                         <<ContentBlockDelta(
                               b.toolCalls[e.index].content_block_index,
                               "input_json_delta", e.arguments)>>
            /\ \A k \in DOMAIN streamState.toolCalls :
                 FragmentsWritten(written,
                                  streamState.toolCalls[k].content_block_index)
                     = FragmentsFed(fed, k)
            /\ (c.finish_reason = "tool_calls" /\ b.contentBlockOpen) =>
                 Suffix(written, 3) =
                     <<ContentBlockStop(b.contentBlockIndex),
                       MessageDelta("tool_use"), MessageStop>>

\* The run of the design's example: a call opened with its first fragment,
\* the second fragment, the finish.
C5_Witness ==
    /\ pc = "loop"
    /\ Len(fed) = 3
    /\ written =
          <<MessageStart,
            ContentBlockStart(1, "tool_use", "t1", "get_weather"),
            ContentBlockDelta(1, "input_json_delta", "{\"city\":"),
            ContentBlockDelta(1, "input_json_delta", "\"NYC\"}"),
            ContentBlockStop(1),
            MessageDelta("tool_use"),
            MessageStop>>

C7_BackendModelMapped ==
    \A i \in 1..Len(backendCalls) :
        backendCalls[i].model =
            IF request.model \in DOMAIN mappings
            THEN mappings[request.model]
            ELSE request.model

C7_Witness ==
    /\ Len(backendCalls) = 1
    /\ request.model = "claude-sonnet-4"
    /\ "claude-opus-4" \in DOMAIN mappings
    /\ backendCalls[1].model = "claude-opus-4"

(***************************************************************************)
(* C8.  The frames written, followed by the events waiting to be written,  *)
(* are the events the translator returns for the chunks fed so far, in     *)
(* order; the stream state is the translator's state after those chunks;   *)
(* events wait only while the handler is in its write loop; and when a     *)
(* chunk has been translated every event of the chunks before it has been  *)
(* written.                                                                *)
(***************************************************************************)
C8_StrictSequencing ==
    LET run == runTranslator(fed, NewStreamState, <<>>)
    IN  /\ written \o pending = run.ev
        /\ streamState = run.st
        /\ pending # <<>> => pc = "write"
        /\ fed # <<>> =>
              Len(written) >=
                  Len(expectedEvents(SubSeq(fed, 1, Len(fed) - 1)))

C8_Witness ==
    /\ Len(fed) >= 2
    /\ pending # <<>>
    /\ Len(pending) < Len(last[1].events)
    /\ Len(written) > Len(expectedEvents(SubSeq(fed, 1, Len(fed) - 1)))

(***************************************************************************)
(* C9.  When an error ends a stream that has written at least one frame,   *)
(* the last frames are message_delta and message_stop.                     *)
(* (Refuted: the exception leaves the callback and nothing is written.)    *)
(***************************************************************************)
C9_ErrorEndsWithTerminalEvent ==
    (pc = "failed" /\ written # <<>>) =>
        /\ Len(written) >= 2
        /\ written[Len(written) - 1].type = "message_delta"
        /\ written[Len(written)].type = "message_stop"

(***************************************************************************)
(* C10.  No failure of a tracer write ends the handler: the handler fails  *)
(* only for a cause that is not the tracer, and when it is done it has     *)
(* called the backend once and delivered the translation of all the        *)
(* backend gave, whether tracer writes failed or not.                      *)
(***************************************************************************)
C10_TracerFailureNeverAborts ==
    /\ pc = "failed" =>
          error \in {"rate_limit", "payload", "validation", "approval",
                     "backend", "translation", "backend_stream",
                     "chunk_parse"}
    /\ pc = "done" =>
          /\ Len(backendCalls) = 1
          /\ IF backendCalls[1].stream
             THEN written = expectedEvents(fed) /\ body = <<>>
             ELSE body = <<translateToAnthropic(response)>> /\ written = <<>>

\* The request trace failed and the event stream was delivered all the same.
C10_Witness ==
    /\ pc = "done"
    /\ traceEnabled
    /\ traceFailures = 1
    /\ traceTimestamp = Null
    /\ Len(backendCalls) = 1
    /\ written # <<>>

(***************************************************************************)
(* C13.  After the client has disconnected, no further chunk is translated *)
(* and no further event is handed to the outbound stream.                  *)
(* (Refuted: the loop has no abort check.)                                 *)
(***************************************************************************)
C13_NothingAfterCancellation ==
    clientGone =>
        /\ Len(fed) = cancelMark[1].fed
        /\ Len(written) = cancelMark[1].written

(***************************************************************************)
(* C14.  Original: the stream state starts with current_block_index = -1,  *)
(* message_started and block_open false and no tool calls, and the k-th    *)
(* block opened in a stream has index k-1.                                 *)
(***************************************************************************)
RECURSIVE StartIndexes(_)
StartIndexes(events) ==
    IF events = <<>>
    THEN <<>>
    ELSE (IF Head(events).type = "content_block_start"
          THEN <<Head(events).index>> ELSE <<>>)
         \o StartIndexes(Tail(events))

ExpectedOrder ==
    <<"rateLimit", "mapping", "traceRequest", "translateToOpenAI">>
    \o (IF manualApprove THEN <<"approval">> ELSE <<>>)
    \o <<"backend">>

C17_FlushedOnceAfterLastEvent ==
    /\ (pc = "done" \/ (pc = "failed" /\ error \in {"chunk_parse", "write"})) =>
          /\ Len(flushes) = 1
          /\ flushes[1] = Len(written)
    /\ pc \notin {"done", "failed"} => flushes = <<>>

(***************************************************************************)
(* C18.  The chunks translated are the raw events that carry a chunk, each *)
(* once and in order; an event without data changes neither the stream     *)
(* state nor the frames; "[DONE]" is the last raw event the loop takes,    *)
(* and after it the loop is over.  (A raw event whose data does not parse  *)
(* is not translated either: it ends the loop with the exception.)         *)
(***************************************************************************)
RECURSIVE ChunksOf(_)
ChunksOf(raws) ==
    IF raws = <<>>
    THEN <<>>
    ELSE (IF Head(raws).kind = "chunk" THEN <<Head(raws).chunk>> ELSE <<>>)
         \o ChunksOf(Tail(raws))

GateErrors == {"rate_limit", "payload", "validation", "approval"}

C19_BackendOnlyAfterGates ==
    /\ Len(backendCalls) <= 1
    /\ backendCalls # <<>> =>
          /\ error \notin GateErrors
          /\ request.json
          /\ validRequest(request)
          /\ \E i \in 1..Len(steps) : steps[i] = "rateLimit"
          /\ manualApprove => \E i \in 1..Len(steps) : steps[i] = "approval"
    /\ error \in GateErrors =>
          /\ pc = "failed"
          /\ backendCalls = <<>>
          /\ body = <<>>
          /\ written = <<>>

C19_Witness ==
    /\ pc = "failed"
    /\ error = "approval"
    /\ steps[Len(steps)] = "approval"
    /\ backendCalls = <<>>

(***************************************************************************)
(* C11.  Every getModelMappings call returns the mappings parsed from the  *)
(* environment value current at the call, whatever changes of the value,   *)
(* calls and clears came before; and of two calls with the same value and  *)
(* no call and no clear between them, the second returns the instance the  *)
(* first returned and parses nothing.                                      *)
(***************************************************************************)
MapEq(m1, m2) ==
    /\ DOMAIN m1 = DOMAIN m2
    /\ \A k \in DOMAIN m1 : m1[k] = m2[k]

Gets == {i \in 1..Len(cacheLog) : cacheLog[i].op = "get"}

C11_CurrentMappingsSameInstance ==
    /\ \A i \in Gets :
          MapEq(cacheLog[i].inst[1].map, parseModelMappings(cacheLog[i].env))
    /\ \A i, j \in Gets :
          (/\ i < j
           /\ cacheLog[i].env = cacheLog[j].env
           /\ \A k \in (i + 1)..(j - 1) : cacheLog[k].op = "set")
          => /\ cacheLog[j].inst[1].id = cacheLog[i].inst[1].id
             /\ ~cacheLog[j].parsed

\* A call, a change of the value, a call that gets other mappings, and a
\* call that gets the cached instance.
C11_Witness ==
    /\ Len(cacheLog) = 4
    /\ cacheLog[1].op = "get"
    /\ cacheLog[2].op = "set"
    /\ cacheLog[3].op = "get"
    /\ cacheLog[4].op = "get"
    /\ ~MapEq(cacheLog[1].inst[1].map, cacheLog[3].inst[1].map)
    /\ cacheLog[4].inst = cacheLog[3].inst
    /\ ~cacheLog[4].parsed

(***************************************************************************)
(* C12.  The map parseModelMappings returns has an entry source -> target  *)
(* for each comma-separated pair whose text before and text after its      *)
(* first colon are both non-empty after trimming, and no other entry;      *)
(* undefined, empty and blank input give the empty map.                    *)
(***************************************************************************)
\* The places where the comma-separated pairs of s begin.
PairStarts(s) == {1} \cup {i + 1 : i \in {j \in 1..Len(s) : s[j] = ","}}

PairAt(s, i) ==
    LET later == {j \in i..Len(s) : s[j] = ","}
    IN  SubSeq(s, i, IF later = {} THEN Len(s)
                     ELSE (CHOOSE j \in later : \A k \in later : j <= k) - 1)

HasText(t) == \E i \in 1..Len(t) : t[i] # Space

ColonAt(p) ==
    CHOOSE i \in 1..Len(p) : p[i] = ":" /\ \A j \in 1..(i - 1) : p[j] # ":"

SourceOf(p) == trim(SubSeq(p, 1, ColonAt(p) - 1))

TargetOf(p) == trim(SubSeq(p, ColonAt(p) + 1, Len(p)))

ValidPair(p) ==
    /\ \E i \in 1..Len(p) : p[i] = ":"
    /\ HasText(SubSeq(p, 1, ColonAt(p) - 1))
    /\ HasText(SubSeq(p, ColonAt(p) + 1, Len(p)))

ValidStarts(s) == {i \in PairStarts(s) : ValidPair(PairAt(s, i))}

C12_EntryForEachValidPair ==
    parseResult # <<>> =>
        IF parseInput = UndefinedStr \/ ~HasText(parseInput)
        THEN DOMAIN parseResult[1] = {}
        ELSE /\ \A i \in ValidStarts(parseInput) :
                   /\ SourceOf(PairAt(parseInput, i)) \in DOMAIN parseResult[1]
                   /\ parseResult[1][SourceOf(PairAt(parseInput, i))]
                          = TargetOf(PairAt(parseInput, i))
             /\ \A k \in DOMAIN parseResult[1] :
                   \E i \in ValidStarts(parseInput) :
                       /\ SourceOf(PairAt(parseInput, i)) = k
                       /\ TargetOf(PairAt(parseInput, i)) = parseResult[1][k]

(***************************************************************************)
(* C12, amended.  The map's keys are the sources of the valid pairs, and   *)
(* the entry of a source is the target of the last valid pair with that    *)
(* source; invalid and empty pairs change nothing; undefined, empty and    *)
(* blank input give the empty map.                                         *)
(***************************************************************************)
LastValidStart(s, k) ==
    CHOOSE i \in ValidStarts(s) :
        /\ SourceOf(PairAt(s, i)) = k
        /\ \A j \in ValidStarts(s) : SourceOf(PairAt(s, j)) = k => j <= i

C12_EntryOfLastValidPair ==
    parseResult # <<>> =>
        IF parseInput = UndefinedStr \/ ~HasText(parseInput)
        THEN DOMAIN parseResult[1] = {}
        ELSE /\ DOMAIN parseResult[1]
                    = {SourceOf(PairAt(parseInput, i)) :
                           i \in ValidStarts(parseInput)}
             /\ \A k \in DOMAIN parseResult[1] :
                   parseResult[1][k]
                       = TargetOf(PairAt(parseInput,
                                         LastValidStart(parseInput, k)))

\* Two valid pairs with one source and two targets, and an invalid pair
\* between them.
C12_Witness ==
    /\ parseResult # <<>>
    /\ parseInput # UndefinedStr
    /\ \E i, j, k \in PairStarts(parseInput) :
          /\ i < j
          /\ j < k
          /\ i \in ValidStarts(parseInput)
          /\ j \notin ValidStarts(parseInput)
          /\ k \in ValidStarts(parseInput)
          /\ SourceOf(PairAt(parseInput, i)) = SourceOf(PairAt(parseInput, k))
          /\ TargetOf(PairAt(parseInput, i)) # TargetOf(PairAt(parseInput, k))

(***************************************************************************)
(* C15.  With two streaming requests in flight and their steps interleaved *)
(* at every await, the state of each is what the translator makes of that  *)
(* request's chunks alone from a fresh state, and the frames each client   *)
(* has got and is about to get are the events of its own chunks alone.     *)
(***************************************************************************)
C15_StreamsIndependent ==
    \A r \in RequestIds :
        /\ reqs[r].written \o reqs[r].pending = expectedEvents(reqs[r].fed)
        /\ reqs[r].streamState
               = runTranslator(reqs[r].fed, NewStreamState, <<>>).st

\* Both streams are under way, with different chunks translated and frames
\* written for both, and the two states differ.
C15_Witness ==
    /\ reqs[1].pc = "loop"
    /\ reqs[2].pc = "write"
    /\ reqs[1].written # <<>>
    /\ reqs[2].written # <<>>
    /\ Len(reqs[1].fed) = 2
    /\ Len(reqs[2].fed) = 2
    /\ reqs[1].fed # reqs[2].fed
    /\ reqs[1].streamState # reqs[2].streamState

(***************************************************************************)
(* C20.  A request's response trace is written at most once, only with     *)
(* tracing enabled and after that request's request trace was written,     *)
(* under that trace's timestamp; a request with tracing disabled or with a *)
(* failed request trace writes no trace file; and with two requests in     *)
(* flight every response trace file holds the response of the request      *)
(* that the request trace file of the same name holds.                     *)
(* (Refuted: two requests traced in one millisecond share the file names.) *)
(***************************************************************************)
Writes(r, ext) ==
    {i \in 1..Len(traceFiles) :
        traceFiles[i].by = r /\ traceFiles[i].name[2] = ext}

\* The write that made the present content of the file of this name.
Current(name) ==
    CHOOSE i \in 1..Len(traceFiles) :
        /\ traceFiles[i].name = name
        /\ \A j \in 1..Len(traceFiles) : traceFiles[j].name = name => j <= i

C20_OwnResponseOnceUnderOwnStamp ==
    \A r \in RequestIds :
        /\ Cardinality(Writes(r, ".resp")) <= 1
        /\ \A i \in Writes(r, ".resp") :
              /\ traceEnabled
              /\ traceFiles[i].name[1] = reqs[r].traceTimestamp
              /\ \E j \in Writes(r, ".req") :
                    /\ j < i
                    /\ traceFiles[j].name[1] = traceFiles[i].name[1]
        /\ (~traceEnabled
            \/ (reqs[r].pc # "traceRequest" /\ reqs[r].traceTimestamp = Null))
           => Writes(r, ".req") \cup Writes(r, ".resp") = {}

C20_TracesPaired ==
    /\ C20_OwnResponseOnceUnderOwnStamp
    /\ \A i \in 1..Len(traceFiles) :
          traceFiles[i].name[2] = ".resp" =>
              traceFiles[Current(<<traceFiles[i].name[1], ".req">>)].by
                  = traceFiles[Current(traceFiles[i].name)].by

=============================================================================
